---- MODULE Spec2Model ----
(***************************************************************************)
(* Model of the "giveaway" smart contract (src/src/lib.rs).                *)
(*                                                                         *)
(* The contract has one init function and three receive functions (send,   *)
(* topup, abort).  The host serialises the calls; each call is one atomic  *)
(* step that reads the call context and the attached amount and returns    *)
(* either Ok(action) (and, for send, a mutated state) or an error.         *)
(*                                                                         *)
(* Amount is an unsigned machine integer (u64 in the program).  The model  *)
(* keeps it a bounded machine integer but scales its range to 0..MaxAmount *)
(* (the program's range is 0..2^64-1); factor is a u8, scaled to           *)
(* 0..MaxFactor.  The Amount operators + and * are the plain machine       *)
(* operators: on overflow a build with overflow checks panics (the call    *)
(* traps and is rejected), a build without them wraps modulo MaxAmount+1.  *)
(***************************************************************************)
EXTENDS Integers, FiniteSets, Sequences, TLC

\* ---------------------------------------------------------------- bounds
MaxAmount == 3
MaxFactor == 3
NumAccounts == 2
NumContracts == 1
MaxPayouts == 2

\* ------------------------------------------------------------- constants
\* number of fields of Config (factor, max_giveaway)
ConfigFields == 2

AmountMod == MaxAmount + 1
Amounts == 0 .. MaxAmount
Factors == 0 .. MaxFactor

Accounts == 1 .. NumAccounts
Contracts == 1 .. NumContracts

\* Address: an account address or a contract address
AccountAddr(a) == [kind |-> "Account", id |-> a]
ContractAddr(c) == [kind |-> "Contract", id |-> c]
Addresses == {AccountAddr(a) : a \in Accounts} \cup {ContractAddr(c) : c \in Contracts}

\* Address::matches_account
matches_account(sender, acc) == sender.kind = "Account" /\ sender.id = acc

Min(a, b) == IF a <= b THEN a ELSE b

\* machine arithmetic on Amount: the value kept, and whether it overflowed
Wrap(x) == x % AmountMod
Overflows(x) == x > MaxAmount

\* ------------------------------------------------------------ data model
Config(f, m) == [factor |-> f, max_giveaway |-> m]
State(c, s) == [config |-> c, senders |-> s]

\* serialized Config parameter: the fields present in the byte cursor
Params == {<<>>} \cup {<<f>> : f \in Factors}
              \cup {<<f, m>> : f \in Factors, m \in Amounts}

\* ctx.parameter_cursor().get(): Config needs both fields
parses(param) == Len(param) >= ConfigFields
parse(param) == Config(param[1], param[2])

\* actions a receive function can return
NoAction == [kind |-> "none", to |-> 0, amount |-> 0]
accept == [kind |-> "accept", to |-> 0, amount |-> 0]
simple_transfer(to, amt) == [kind |-> "simple_transfer", to |-> to, amount |-> amt]

\* values of the local variables of send, when the call computed them
NoLocals == [computed |-> FALSE, expected_return |-> 0, balance_plus_amount |-> 0,
             actual_return |-> 0]

NoCtx == [invoker |-> 0, sender |-> AccountAddr(0), self_balance |-> 0]

VARIABLES
    instance,         \* <<>> before a successful init, <<state>> after it
    owner,            \* the account ctx.owner() reports for this instance
    overflow_checks,  \* TRUE: arithmetic overflow panics; FALSE: it wraps
    last,             \* the last call: its inputs, what it returned and the
                      \* state it left behind its &mut State (left)
    paid              \* per account, the number of payouts send requested

vars == <<instance, owner, overflow_checks, last, paid>>

\* ------------------------------------------------------------------ init
InitErr(e) == [result |-> e, state |-> <<>>]

\* faulty variant: accepts factor 1
giveaway_init_factor_one(param, amount) ==
    IF amount = 0 THEN InitErr("ZeroAmount")
    ELSE IF ~parses(param) THEN InitErr("ParseParams")
    ELSE IF ~(parse(param).factor >= 1) THEN InitErr("FactorBelowTwo")
    ELSE IF parse(param).max_giveaway = 0 THEN InitErr("ZeroMaxGiveaway")
    ELSE [result |-> "Ok", state |-> <<State(parse(param), {})>>]

\* faulty variant: max_giveaway is not validated
giveaway_init_zero_max(param, amount) ==
    IF amount = 0 THEN InitErr("ZeroAmount")
    ELSE IF ~parses(param) THEN InitErr("ParseParams")
    ELSE IF ~(parse(param).factor >= 2) THEN InitErr("FactorBelowTwo")
    ELSE [result |-> "Ok", state |-> <<State(parse(param), {})>>]

\* faulty variant: the parameter is parsed before the amount is checked
giveaway_init_parse_first(param, amount) ==
    IF ~parses(param) THEN InitErr("ParseParams")
    ELSE IF amount = 0 THEN InitErr("ZeroAmount")
    ELSE IF ~(parse(param).factor >= 2) THEN InitErr("FactorBelowTwo")
    ELSE IF parse(param).max_giveaway = 0 THEN InitErr("ZeroMaxGiveaway")
    ELSE [result |-> "Ok", state |-> <<State(parse(param), {})>>]

giveaway_init(param, amount) ==
    IF amount = 0 THEN InitErr("ZeroAmount")
    ELSE IF ~parses(param) THEN InitErr("ParseParams")
    ELSE IF ~(parse(param).factor >= 2) THEN InitErr("FactorBelowTwo")
    ELSE IF parse(param).max_giveaway = 0 THEN InitErr("ZeroMaxGiveaway")
    ELSE [result |-> "Ok", state |-> <<State(parse(param), {})>>]

\* ------------------------------------------------------------------ send
RecvErr(e, st) == [result |-> e, state |-> st, action |-> NoAction, locals |-> NoLocals]

expected_return(amount, config) ==
    LET factor == config.factor
    IN  IF amount > config.max_giveaway
        THEN LET prod == config.max_giveaway * (factor - 1)
                 sum == amount + Wrap(prod)
             IN  [val |-> Wrap(sum), ovf |-> Overflows(prod) \/ Overflows(sum)]
        ELSE LET prod == amount * factor
             IN  [val |-> Wrap(prod), ovf |-> Overflows(prod)]

\* faulty variant: the payout is not capped by balance + amount
actual_return_uncapped(balance, amount, expected) ==
    LET sum == balance + amount
    IN  [val |-> expected, sum |-> Wrap(sum), ovf |-> Overflows(sum)]

\* faulty variant: the payout is the whole of balance + amount
actual_return_all(balance, amount, expected) ==
    LET sum == balance + amount
    IN  [val |-> Wrap(sum), sum |-> Wrap(sum), ovf |-> Overflows(sum)]

actual_return(balance, amount, expected) ==
    LET sum == balance + amount
    IN  [val |-> Min(Wrap(sum), expected), sum |-> Wrap(sum), ovf |-> Overflows(sum)]

\* state.senders.contains(&invoker); faulty variant: never finds the invoker
contains_never(senders, invoker) == FALSE
contains(senders, invoker) == invoker \in senders

\* state.senders.insert(invoker); faulty variant: the insertion is lost
insert_dropped(senders, invoker) == senders
\* faulty variant: the insertion replaces the set
insert_replacing(senders, invoker) == {invoker}
insert(senders, invoker) == senders \cup {invoker}

\* faulty variant: records the invoker before the checks
giveaway_send_insert_first(ctx, amount, st) ==
    LET invoker == ctx.invoker
        marked == [st EXCEPT !.senders = insert(@, invoker)]
    IN  IF amount = 0 THEN RecvErr("ZeroAmount", marked)
        ELSE LET exp == expected_return(amount, st.config)
                 act == actual_return(ctx.self_balance, amount, exp.val)
                 locals == [computed |-> TRUE, expected_return |-> exp.val,
                            balance_plus_amount |-> act.sum, actual_return |-> act.val]
             IN  IF overflow_checks /\ (exp.ovf \/ act.ovf) THEN RecvErr("Trap", st)
                 ELSE IF act.val = amount
                      THEN [RecvErr("ZeroBalance", marked) EXCEPT !.locals = locals]
                 ELSE IF contains(st.senders, invoker)
                      THEN [RecvErr("DoubleSend", marked) EXCEPT !.locals = locals]
                 ELSE [result |-> "Ok", state |-> marked,
                       action |-> simple_transfer(invoker, act.val), locals |-> locals]

giveaway_send(ctx, amount, st) ==
    IF amount = 0 THEN RecvErr("ZeroAmount", st)
    ELSE LET exp == expected_return(amount, st.config)
             act == actual_return(ctx.self_balance, amount, exp.val)
             invoker == ctx.invoker
             locals == [computed |-> TRUE, expected_return |-> exp.val,
                        balance_plus_amount |-> act.sum, actual_return |-> act.val]
         IN  IF overflow_checks /\ (exp.ovf \/ act.ovf) THEN RecvErr("Trap", st)
             ELSE IF act.val = amount
                  THEN [RecvErr("ZeroBalance", st) EXCEPT !.locals = locals]
             ELSE IF contains(st.senders, invoker)
                  THEN [RecvErr("DoubleSend", st) EXCEPT !.locals = locals]
             ELSE [result |-> "Ok",
                   state |-> [st EXCEPT !.senders = insert(@, invoker)],
                   action |-> simple_transfer(invoker, act.val),
                   locals |-> locals]

\* ----------------------------------------------------------------- topup
\* faulty variant: gates on the invoker instead of the immediate sender
giveaway_topup_by_invoker(ctx, amount, st) ==
    IF ctx.invoker # owner THEN RecvErr("NotOwner", st)
    ELSE [result |-> "Ok", state |-> st, action |-> accept, locals |-> NoLocals]

\* faulty variant: a successful topup records the invoker as a sender
giveaway_topup_records(ctx, amount, st) ==
    LET sender == ctx.sender
    IN  IF ~matches_account(sender, owner) THEN RecvErr("NotOwner", st)
        ELSE [result |-> "Ok", state |-> [st EXCEPT !.senders = insert(@, ctx.invoker)],
              action |-> accept, locals |-> NoLocals]

giveaway_topup(ctx, amount, st) ==
    LET sender == ctx.sender
    IN  IF ~matches_account(sender, owner) THEN RecvErr("NotOwner", st)
        ELSE [result |-> "Ok", state |-> st, action |-> accept, locals |-> NoLocals]

\* ----------------------------------------------------------------- abort
\* faulty variant: refuses to drain an empty contract
giveaway_abort_nonzero(ctx, amount, st) ==
    LET invoker == ctx.invoker
    IN  IF invoker # owner THEN RecvErr("NotOwner", st)
        ELSE IF ctx.self_balance = 0 THEN RecvErr("ZeroAmount", st)
        ELSE [result |-> "Ok", state |-> st,
              action |-> simple_transfer(invoker, ctx.self_balance), locals |-> NoLocals]

\* faulty variant: returns the attached amount instead of the balance
giveaway_abort_attached(ctx, amount, st) ==
    LET invoker == ctx.invoker
    IN  IF invoker # owner THEN RecvErr("NotOwner", st)
        ELSE [result |-> "Ok", state |-> st,
              action |-> simple_transfer(invoker, amount), locals |-> NoLocals]

\* faulty variant: a successful abort starts a new round (senders cleared)
giveaway_abort_reset(ctx, amount, st) ==
    LET invoker == ctx.invoker
    IN  IF invoker # owner THEN RecvErr("NotOwner", st)
        ELSE [result |-> "Ok", state |-> [st EXCEPT !.senders = {}],
              action |-> simple_transfer(invoker, ctx.self_balance), locals |-> NoLocals]

giveaway_abort(ctx, amount, st) ==
    LET invoker == ctx.invoker
    IN  IF invoker # owner THEN RecvErr("NotOwner", st)
        ELSE [result |-> "Ok", state |-> st,
              action |-> simple_transfer(invoker, ctx.self_balance), locals |-> NoLocals]

\* ------------------------------------------------------- the state machine
\* Call contexts the host can build.  The sender is the invoking account
\* itself or a contract the invoker's transaction went through.  Each
\* handler is offered every value of the inputs it reads; an input a handler
\* never reads (ctx.sender() in send and abort, ctx.self_balance() in topup,
\* the _amount parameter of topup and abort) is offered at its two extremes.
Ctx(i, s, b) == [invoker |-> i, sender |-> s, self_balance |-> b]
SendersOf(i) == {AccountAddr(i)} \cup {ContractAddr(c) : c \in Contracts}
UnreadAmounts == {0, MaxAmount}
SendCtxs == {Ctx(i, AccountAddr(i), b) : i \in Accounts, b \in Amounts}
AbortCtxs == SendCtxs
TopupCtxs == UNION {{Ctx(i, s, b) : s \in SendersOf(i), b \in UnreadAmounts} : i \in Accounts}

Called(op, ctx, amount, param, out) ==
    [op |-> op, ctx |-> ctx, amount |-> amount, param |-> param, pre |-> instance,
     left |-> <<out.state>>,
     result |-> out.result, action |-> out.action, locals |-> out.locals]

Init ==
    /\ instance = <<>>
    /\ owner \in Accounts
    /\ overflow_checks \in BOOLEAN
    /\ last = [op |-> "none", ctx |-> NoCtx, amount |-> 0, param |-> <<>>, pre |-> <<>>,
               left |-> <<>>,
               result |-> "none", action |-> NoAction, locals |-> NoLocals]
    /\ paid = [a \in Accounts |-> 0]

CallInit ==
    /\ instance = <<>>
    /\ \E param \in Params, amount \in Amounts :
          LET out == giveaway_init(param, amount)
          IN  /\ instance' = out.state
              /\ last' = [op |-> "init", ctx |-> NoCtx, amount |-> amount, param |-> param,
                          pre |-> instance, left |-> out.state,
                          result |-> out.result, action |-> NoAction,
                          locals |-> NoLocals]
    /\ UNCHANGED <<owner, overflow_checks, paid>>

\* the host persists the state and performs the action only when the call
\* returned Ok; an error or a trap rejects the whole invocation
Commit(out) == IF out.result = "Ok" THEN <<out.state>> ELSE instance

CallSend ==
    /\ instance # <<>>
    /\ \E ctx \in SendCtxs, amount \in Amounts :
          LET out == giveaway_send(ctx, amount, instance[1])
          IN  /\ paid[ctx.invoker] < MaxPayouts
              /\ instance' = Commit(out)
              /\ last' = Called("send", ctx, amount, <<>>, out)
              /\ paid' = IF out.result = "Ok" /\ out.action.kind = "simple_transfer"
                         THEN [paid EXCEPT ![out.action.to] = @ + 1]
                         ELSE paid
    /\ UNCHANGED <<owner, overflow_checks>>

CallTopup ==
    /\ instance # <<>>
    /\ \E ctx \in TopupCtxs, amount \in UnreadAmounts :
          LET out == giveaway_topup(ctx, amount, instance[1])
          IN  /\ instance' = Commit(out)
              /\ last' = Called("topup", ctx, amount, <<>>, out)
    /\ UNCHANGED <<owner, overflow_checks, paid>>

CallAbort ==
    /\ instance # <<>>
    /\ \E ctx \in AbortCtxs, amount \in UnreadAmounts :
          LET out == giveaway_abort(ctx, amount, instance[1])
          IN  /\ instance' = Commit(out)
              /\ last' = Called("abort", ctx, amount, <<>>, out)
    /\ UNCHANGED <<owner, overflow_checks, paid>>

Next == CallInit \/ CallSend \/ CallTopup \/ CallAbort

Spec == Init /\ [][Next]_vars

TypeOK ==
    /\ Len(instance) <= 1
    /\ owner \in Accounts
    /\ overflow_checks \in BOOLEAN
    /\ paid \in [Accounts -> 0 .. MaxPayouts]

\* ----------------------------------------------------------- properties
\* exact (unbounded-integer) values of the quantities send computes
state == instance[1]
PreState == last.pre[1]
ExactExpected(amount, config) ==
    IF amount > config.max_giveaway
    THEN amount + config.max_giveaway * (config.factor - 1)
    ELSE amount * config.factor
ExactSum(balance, amount) == balance + amount
NoOverflow(balance, amount, config) ==
    /\ ExactExpected(amount, config) <= MaxAmount
    /\ ExactSum(balance, amount) <= MaxAmount
    /\ config.max_giveaway * (config.factor - 1) <= MaxAmount \/ amount <= config.max_giveaway
IsSend == last.op = "send"
SendOk == last.op = "send" /\ last.result = "Ok"
RepeatedSend == last.op = "send" /\ last.ctx.invoker \in PreState.senders

\* C1: no double payout -- over any sequence of init, send, topup and abort
\* calls, send requests at most one payout transfer for any account.
C1_NoDoublePayout == \A a \in Accounts : paid[a] <= 1

\* C1 witness: an account that already got its payout called send again.
C1_Witness == RepeatedSend /\ paid[last.ctx.invoker] = 1

\* C2 as stated: a send whose invoker is already in senders fails with
\* DoubleSend for every amount and balance, and leaves the state unchanged.
C2_AlwaysDoubleSend ==
    RepeatedSend => (last.result = "DoubleSend" /\ instance = last.pre)

\* C2 amended: a send whose invoker is already in senders always fails,
\* requests nothing and leaves the state unchanged; the earlier checks come
\* first, so the error is ZeroAmount when amount = 0 and, when no operation
\* overflows, ZeroBalance when balance = 0 and DoubleSend otherwise; when an
\* operation overflows the call traps (overflow checks) or reports
\* ZeroBalance or DoubleSend from the wrapped values.
C2_RepeatedSendFails ==
    RepeatedSend =>
        /\ last.result \in {"ZeroAmount", "ZeroBalance", "DoubleSend", "Trap"}
        /\ instance = last.pre
        /\ last.action = NoAction
        /\ (last.amount = 0 <=> last.result = "ZeroAmount")
        /\ (last.result = "Trap" =>
                overflow_checks /\ ~NoOverflow(last.ctx.self_balance, last.amount, state.config))
        /\ (last.amount # 0 /\ NoOverflow(last.ctx.self_balance, last.amount, state.config) =>
                last.result = (IF last.ctx.self_balance = 0 THEN "ZeroBalance" ELSE "DoubleSend"))

\* C2 witness: a repeated send that reached the DoubleSend check.
C2_Witness == RepeatedSend /\ last.result = "DoubleSend"

\* C3: init succeeds iff amount # 0, the parameter parses, factor >= 2 and
\* max_giveaway # 0; on success the state is exactly the given config with
\* an empty senders set, on failure an error is returned and no state exists.
C3_InitValidation ==
    last.op = "init" =>
        LET good == /\ last.amount # 0
                    /\ Len(last.param) >= 2
                    /\ last.param[1] >= 2
                    /\ last.param[2] # 0
        IN  /\ last.result = "Ok" <=> good
            /\ good => instance = <<[config |-> [factor |-> last.param[1],
                                                 max_giveaway |-> last.param[2]],
                                     senders |-> {}]>>
            /\ ~good => /\ instance = <<>>
                        /\ last.result \in {"ZeroAmount", "ParseParams",
                                            "FactorBelowTwo", "ZeroMaxGiveaway"}

\* C3 witness: a successful init.
C3_Witness == last.op = "init" /\ last.result = "Ok" /\ instance # <<>>

\* C4 as stated: every successful send transfers to the invoker exactly
\* min(balance + amount, expected_return), with the exact values of both.
C4_ExactPayout ==
    SendOk =>
        last.action = simple_transfer(last.ctx.invoker,
                          Min(ExactSum(last.ctx.self_balance, last.amount),
                              ExactExpected(last.amount, state.config)))

\* C5 as stated: the computed actual_return is <= balance + amount always
\* and >= amount whenever balance > 0.
C5_PrincipalReturned ==
    (IsSend /\ last.locals.computed) =>
        /\ last.locals.actual_return <= ExactSum(last.ctx.self_balance, last.amount)
        /\ last.ctx.self_balance > 0 => last.locals.actual_return >= last.amount

\* C6 as stated: the transfer of a successful send is <= the context balance.
C6_WithinBalance == SendOk => last.action.amount <= last.ctx.self_balance

\* C6 amended: the transfer of a successful send never exceeds the context
\* balance plus the attached amount (the context balance does not include
\* the attached amount; the code adds it).
C6_WithinBalancePlusAmount ==
    SendOk => last.action.amount <= ExactSum(last.ctx.self_balance, last.amount)

\* C6 witness: a successful send that pays out more than the context balance,
\* all of balance + amount.
C6_Witness ==
    /\ SendOk
    /\ last.action.amount > last.ctx.self_balance
    /\ last.action.amount = ExactSum(last.ctx.self_balance, last.amount)

\* C7 as stated: the values send computes for expected_return and
\* balance + amount equal their exact mathematical values (no wraparound).
C7_NoWraparound ==
    (IsSend /\ last.locals.computed) =>
        /\ last.locals.expected_return = ExactExpected(last.amount, state.config)
        /\ last.locals.balance_plus_amount = ExactSum(last.ctx.self_balance, last.amount)

\* C8: topup succeeds with accept iff the immediate sender is the owner's
\* account; any other sender, a contract included, gets NotOwner.
C8_TopupOwnerOnly ==
    last.op = "topup" =>
        LET isOwner == last.ctx.sender.kind = "Account" /\ last.ctx.sender.id = owner
        IN  /\ isOwner => last.result = "Ok" /\ last.action = accept
            /\ ~isOwner => last.result = "NotOwner" /\ last.action = NoAction

\* C8 witness: the owner invoked topup through a contract and was refused.
C8_Witness ==
    /\ last.op = "topup"
    /\ last.ctx.invoker = owner
    /\ last.ctx.sender.kind = "Contract"
    /\ last.result = "NotOwner"

\* C9: abort succeeds iff the invoker is the owner, whatever the attached
\* amount, the balance and senders; every other invoker gets NotOwner.
C9_AbortOwnerOnly ==
    last.op = "abort" =>
        /\ last.ctx.invoker = owner => last.result = "Ok"
        /\ last.ctx.invoker # owner => last.result = "NotOwner"

\* C9 witness: the owner aborted a contract with balance 0 that has senders.
C9_Witness ==
    /\ last.op = "abort"
    /\ last.result = "Ok"
    /\ last.ctx.self_balance = 0
    /\ last.amount # 0
    /\ state.senders # {}

\* C10: a successful abort requests one transfer, to the invoker (the
\* owner), of exactly the context balance.
C10_AbortDrains ==
    (last.op = "abort" /\ last.result = "Ok") =>
        /\ last.action.kind = "simple_transfer"
        /\ last.action.to = last.ctx.invoker
        /\ last.action.to = owner
        /\ last.action.amount = last.ctx.self_balance

\* C10 witness: a successful abort of a non-empty balance that differs from
\* the attached amount.
C10_Witness ==
    /\ last.op = "abort"
    /\ last.result = "Ok"
    /\ last.ctx.self_balance > 0
    /\ last.ctx.self_balance # last.amount

IsReceive == last.op \in {"send", "topup", "abort"}
Left == last.left[1]

\* C11: a send, topup or abort call that does not return Ok leaves config and
\* senders as they were before the call -- both in the state the handler
\* worked on and in the persisted state -- and requests no action.
C11_FailureCommitsNothing ==
    (IsReceive /\ last.result # "Ok") =>
        /\ Left = PreState
        /\ instance = last.pre
        /\ last.action = NoAction

\* C11 witness: a failed send of an invoker not yet recorded (the call that
\* would have inserted it had it passed the checks).
C11_Witness ==
    /\ IsSend
    /\ last.result = "ZeroBalance"
    /\ last.ctx.invoker \notin state.senders
    /\ state.senders # {}

\* C12: a successful send adds exactly the invoker to senders (new senders =
\* old senders \cup {invoker}, one element more, config unchanged) and its
\* transfer goes to that invoker; a send inserts if and only if it requests
\* a transfer.
C12_SendRecordsInvoker ==
    /\ SendOk =>
          /\ state.senders = PreState.senders \cup {last.ctx.invoker}
          /\ Cardinality(state.senders) = Cardinality(PreState.senders) + 1
          /\ state.config = PreState.config
          /\ last.action.kind = "simple_transfer"
          /\ last.action.to = last.ctx.invoker
    /\ IsSend => (state # PreState <=> last.action.kind = "simple_transfer")

\* C12 witness: a successful send into a senders set that was not empty.
C12_Witness == SendOk /\ PreState.senders # {} /\ Cardinality(state.senders) >= 2

\* C13: topup and abort never change the state, whether they succeed or
\* fail, and a successful topup requests accept only (no transfer).
C13_TopupAbortFrame ==
    last.op \in {"topup", "abort"} =>
        /\ Left = PreState
        /\ instance = last.pre
        /\ (last.op = "topup" /\ last.result = "Ok") => last.action = accept

\* C13 witness: a successful topup on a state that has senders.
C13_Witness ==
    /\ last.op = "topup"
    /\ last.result = "Ok"
    /\ state.senders # {}
    /\ last.amount # 0

\* C14: senders is insertion-only -- no step of send, topup or abort (an
\* abort by the owner and a later topup included) removes an address, so the
\* senders set of a state contains that of every earlier state.
C14_SendersOnlyGrow ==
    [][instance # <<>> =>
          /\ instance' # <<>>
          /\ instance[1].senders \subseteq instance'[1].senders]_vars

\* C14 witness: the owner's abort succeeded on a state in which every account
\* has claimed.
C14_Witness ==
    /\ last.op = "abort"
    /\ last.result = "Ok"
    /\ state.senders = Accounts

\* C15: in every state reachable from a successful init the config has
\* factor >= 2 and max_giveaway > 0, a successful init stores exactly the
\* config it was given, and no receive call modifies config.
C15_ConfigFixed ==
    instance # <<>> =>
        /\ state.config.factor >= 2
        /\ state.config.max_giveaway > 0
        /\ last.op = "init" =>
              state.config = [factor |-> last.param[1], max_giveaway |-> last.param[2]]
        /\ IsReceive => state.config = PreState.config /\ Left.config = PreState.config

\* C15 witness: a successful send on a config with factor > 2.
C15_Witness == SendOk /\ state.config.factor > 2 /\ state.config.max_giveaway > 1

\* C16 as stated: send succeeds iff amount # 0, balance # 0 and the invoker is
\* not in senders; ZeroBalance is reported only when balance = 0; an amount
\* above max_giveaway is not a reason to refuse; every successful send returns
\* strictly more than the principal.
C16_SendNeverRefuses ==
    IsSend =>
        /\ last.result = "Ok" <=>
              /\ last.amount # 0
              /\ last.ctx.self_balance # 0
              /\ last.ctx.invoker \notin PreState.senders
        /\ last.result = "ZeroBalance" => last.ctx.self_balance = 0
        /\ last.result = "Ok" => last.action.amount > last.amount

\* C17: init validates in a fixed order and the first failure wins:
\* ZeroAmount before ParseParams before FactorBelowTwo before ZeroMaxGiveaway.
C17_InitOrder ==
    last.op = "init" =>
        LET parsed == Len(last.param) >= 2
        IN  /\ last.amount = 0 => last.result = "ZeroAmount"
            /\ (last.amount # 0 /\ ~parsed) => last.result = "ParseParams"
            /\ (last.amount # 0 /\ parsed /\ last.param[1] < 2) =>
                    last.result = "FactorBelowTwo"
            /\ (last.amount # 0 /\ parsed /\ last.param[1] >= 2 /\ last.param[2] = 0) =>
                    last.result = "ZeroMaxGiveaway"

\* C17 witness: init with amount 0 and a parameter that does not parse.
C17_Witness ==
    /\ last.op = "init"
    /\ last.amount = 0
    /\ Len(last.param) < 2
    /\ last.result = "ZeroAmount"

\* C18 as stated: send checks ZeroAmount, then ZeroBalance, then DoubleSend
\* (after the payout is computed): amount 0 yields ZeroAmount and, otherwise,
\* balance 0 yields ZeroBalance, for a recorded invoker too; DoubleSend is
\* reported only past both checks, and a failing call returns exactly one of
\* the three errors.
C18_SendOrder ==
    IsSend =>
        /\ last.result \in {"Ok", "ZeroAmount", "ZeroBalance", "DoubleSend"}
        /\ last.amount = 0 => last.result = "ZeroAmount"
        /\ (last.amount # 0 /\ last.ctx.self_balance = 0) => last.result = "ZeroBalance"
        /\ last.result = "DoubleSend" =>
              /\ last.locals.computed
              /\ last.amount # 0
              /\ last.ctx.self_balance # 0
              /\ last.ctx.invoker \in PreState.senders

\* C19: the bonus of a successful send is at most max_giveaway * (factor - 1),
\* and send pays each claiming address exactly once, so the total bonus paid
\* is at most (number of claiming addresses) * max_giveaway * (factor - 1).
C19_BonusCapped ==
    /\ SendOk =>
          last.action.amount - last.amount
              <= state.config.max_giveaway * (state.config.factor - 1)
    /\ instance # <<>> =>
          \A a \in Accounts : paid[a] = (IF a \in state.senders THEN 1 ELSE 0)

\* C19 witness: a successful send of an amount above max_giveaway, paid the
\* full capped bonus, after another address had claimed.
C19_Witness ==
    /\ SendOk
    /\ last.amount > state.config.max_giveaway
    /\ last.action.amount - last.amount
          = state.config.max_giveaway * (state.config.factor - 1)
    /\ Cardinality(state.senders) >= 2
====
